---- MODULE Spec2Model ----
(***************************************************************************)
(* State-machine model of CfgSyncPlugin                                    *)
(* (extensions/applicationinsights-cfgsync-js/src/CfgSyncPlugin.ts).       *)
(*                                                                         *)
(* One plugin instance is modelled together with the parts of its host it  *)
(* talks to: the shared event bus (the listeners registered on the global  *)
(* object), the host timer queue, the requests that are in flight, and the *)
(* host configuration system that calls the onConfigChange callback.       *)
(* A second specification, FanSpec, puts three instances on one page, each *)
(* with a host configuration of its own, to follow the broadcasts they set *)
(* off in one another.                                                     *)
(*                                                                         *)
(* JavaScript values are tagged records so that null, undefined, booleans, *)
(* strings, numbers, objects and functions can be told apart and the       *)
(* code's truthiness tests can be translated literally.                    *)
(***************************************************************************)
EXTENDS Integers, Sequences, FiniteSets, Bags, TLC

VARIABLES
    _mainConfig,          \* the snapshot, as a reader of it finds it
    _isAutoSync,
    _evtName,
    _evtNamespace,
    _cfgUrl,
    _timeoutHandle,
    _receiveChanges,
    _fetchSpan,
    _onCfgChangeReceive,
    _nonOverrideConfigs,
    _fetchFn,
    _overrideFetchFn,
    _overrideSyncFn,
    initialized,          \* the onConfigChange hook is registered (between initialize and teardown)
    listeners,            \* the listeners registered on the shared bus
    timers,               \* number of scheduled, not yet fired or cancelled, timeouts of this instance
    inflight,             \* the bag of requests that were dispatched and have not completed
    established,          \* disableAutoSync and receiveChanges of the first notification of this lifecycle
    pollStarts,           \* how often this lifecycle started fetching and polling
    hostConfig,           \* the values of the host's configuration object, the config of initialize
    aliased,              \* _mainConfig is the host's configuration object itself
    out,                  \* what the last operation did that its caller or the host can observe
    fan                   \* several instances on one page, each with its host configuration

pluginVars == <<_mainConfig, _isAutoSync, _evtName, _evtNamespace, _cfgUrl, _timeoutHandle,
                _receiveChanges, _fetchSpan, _onCfgChangeReceive, _nonOverrideConfigs, _fetchFn,
                _overrideFetchFn, _overrideSyncFn, initialized, listeners, timers, inflight,
                established, pollStarts, hostConfig, aliased, out>>

vars == <<pluginVars, fan>>

(***************************************************************************)
(* JavaScript values                                                       *)
(***************************************************************************)
Null == [kind |-> "null"]
Undef == [kind |-> "undefined"]
Bool(b) == [kind |-> "bool", v |-> b]
Str(s) == [kind |-> "str", v |-> s]
Num(n) == [kind |-> "num", v |-> n]
Obj(k) == [kind |-> "obj", kids |-> k]
Fn(f) == [kind |-> "fn", v |-> f]

\* ToBoolean: what `if (x)`, `!x`, `x && y` and `x || y` test
Truthy(x) ==
    CASE x.kind = "null" -> FALSE
      [] x.kind = "undefined" -> FALSE
      [] x.kind = "bool" -> x.v
      [] x.kind = "str" -> x.v # ""
      [] x.kind = "num" -> x.v # 0
      [] OTHER -> TRUE

isNullOrUndefined(x) == x.kind \in {"null", "undefined"}

isFunction(x) == x.kind = "fn"

\* a && b
And(a, b) == IF Truthy(a) THEN b ELSE a

\* a || b
Or(a, b) == IF Truthy(a) THEN a ELSE b

\* the property read o.k (undefined when o has no such property)
Get(o, k) == IF o.kind = "obj" /\ k \in DOMAIN o.kids THEN o.kids[k] ELSE Undef

(***************************************************************************)
(* Program constants                                                       *)
(***************************************************************************)
evtName == "cfgsync"

FETCH_SPAN == 1800000

udfVal == Undef

defaultNonOverrideCfg ==
    Obj([instrumentationKey |-> Bool(TRUE), connectionString |-> Bool(TRUE), endpointUrl |-> Bool(TRUE)])

\* _defaultConfig: the values getExtCfg fills in for options the host config leaves out
DefaultExt ==
    [disableAutoSync |-> Bool(FALSE), customEvtName |-> udfVal, cfgUrl |-> udfVal,
     receiveChanges |-> Bool(FALSE), overrideSyncFn |-> udfVal, overrideFetchFn |-> udfVal,
     onCfgChangeReceive |-> udfVal, scheduleFetchTimeout |-> Num(FETCH_SPAN),
     nonOverrideConfigs |-> defaultNonOverrideCfg]

\* the levels replaceByNonOverrideCfg is called with
StartLevel == 1
MaxLevel == 5

(***************************************************************************)
(* Bounds of the model                                                     *)
(***************************************************************************)
\* requests that may be outstanding at once
MaxInflight == 1

(***************************************************************************)
(* Inputs the operations are exercised with                                *)
(***************************************************************************)
CfgUrl == "https://example/cfg.json"

\* a nested part of the host configuration, with protected keys at the
\* levels 2, 5 and 6
HostNested ==
    Obj([connectionString |-> Str("h2"),
         b |-> Obj([c |-> Obj([d |-> Obj([endpointUrl |-> Str("h5"),
              e |-> Obj([instrumentationKey |-> Str("k6"), f |-> Num(1)])])])])])

CfgA == Obj([instrumentationKey |-> Str("abc"), sampleRate |-> Num(50), a |-> HostNested])
CfgB == Obj([instrumentationKey |-> Str("abc"), sampleRate |-> Num(10), a |-> HostNested])
CfgC == Obj([sampleRate |-> Num(50)])

\* the host configurations initialize may be given
HostCfgs == {CfgA, CfgB}

\* the values the host's sampleRate is set to
SampleRates == {Num(10), Num(50)}

\* the arguments setCfg is called with
SetCfgArgs == {Null, Undef, CfgC}

\* the arguments sync is called with
SyncArgs == {Undef, Str("details")}

\* the arguments updateEventListenerName is called with
NameArgs == {Undef, Str(evtName), Str("custom")}

\* rule sets a user may configure instead of the default one: one that
\* releases the instrumentation key and protects sampleRate, and one that
\* protects sampleRate next to the default keys and names a key it leaves free
CustomNonOverrideCfg == Obj([sampleRate |-> Bool(TRUE), instrumentationKey |-> Bool(FALSE)])
StrictNonOverrideCfg ==
    Obj([instrumentationKey |-> Bool(TRUE), connectionString |-> Bool(TRUE), endpointUrl |-> Bool(TRUE),
         sampleRate |-> Bool(TRUE), b |-> Bool(FALSE)])

\* The extension configurations getExtCfg may resolve to on a change notification
\* (after the defaults of _defaultConfig were applied).
ExtCfgs ==
    { [DefaultExt EXCEPT !.disableAutoSync = Bool(d), !.receiveChanges = Bool(r),
                         !.customEvtName = n, !.cfgUrl = c] :
        d \in BOOLEAN, r \in BOOLEAN, n \in {Undef, Str("custom")},
        c \in {Undef, Str(CfgUrl)} }

\* The extension configurations of the notifications after the first one. The
\* callback reads disableAutoSync and receiveChanges only while _isAutoSync
\* and _receiveChanges are null, which they are at the first notification
\* alone, so later notifications flip the two together, and opposite to cfgUrl.
LaterExtCfgs ==
    {e \in ExtCfgs : /\ Truthy(e.disableAutoSync) = Truthy(e.receiveChanges)
                     /\ Truthy(e.disableAutoSync) = ~Truthy(e.cfgUrl)}

\* The options that _populateDefaults reads once, after the first notification.
\* An option is varied where the instance can come to read it: the receive
\* callback and the rule set in receive mode, the fetch function and the poll
\* interval when cfgUrl is set. The receive callback, the rule set and the
\* event name are varied without a cfgUrl, the override functions one at a
\* time, and the override fetch function and the interval 0 with the modes at
\* their defaults.
InitExtCfgs ==
    { e \in { [x EXCEPT !.overrideSyncFn = s, !.overrideFetchFn = f, !.onCfgChangeReceive = o,
                        !.scheduleFetchTimeout = t, !.nonOverrideConfigs = n] :
                x \in ExtCfgs, s \in {Undef, Fn("userSync")}, f \in {Undef, Fn("userFetch")},
                o \in {Undef, Fn("userReceive")}, t \in {Num(0), Num(FETCH_SPAN)},
                n \in {defaultNonOverrideCfg, StrictNonOverrideCfg} } :
        /\ ~Truthy(e.receiveChanges) =>
               e.onCfgChangeReceive = Undef /\ e.nonOverrideConfigs = defaultNonOverrideCfg
        /\ Truthy(e.onCfgChangeReceive) => e.nonOverrideConfigs = defaultNonOverrideCfg
        /\ ~Truthy(e.cfgUrl) =>
               e.overrideFetchFn = Undef /\ e.scheduleFetchTimeout = Num(FETCH_SPAN)
        /\ Truthy(e.cfgUrl) =>
               /\ e.onCfgChangeReceive = Undef
               /\ e.nonOverrideConfigs = defaultNonOverrideCfg
               /\ e.customEvtName = Undef
        /\ Truthy(e.overrideSyncFn) =>
               /\ e.onCfgChangeReceive = Undef
               /\ e.nonOverrideConfigs = defaultNonOverrideCfg
               /\ e.overrideFetchFn = Undef
        /\ (e.scheduleFetchTimeout = Num(0) \/ Truthy(e.overrideFetchFn)) =>
               /\ ~Truthy(e.disableAutoSync)
               /\ ~Truthy(e.receiveChanges)
               /\ e.overrideSyncFn = Undef
        /\ e.scheduleFetchTimeout = Num(0) => e.overrideFetchFn = Undef }

\* what isFetchSupported() and isXhrSupported() may find, asked only when
\* there is no override fetch function; a host without fetch is tried with the
\* default poll interval, the modes at their defaults and no override sync
\* function
Hosts(ext) ==
    IF Truthy(ext.cfgUrl) /\ isNullOrUndefined(ext.overrideFetchFn)
    THEN IF \/ ext.scheduleFetchTimeout = Num(0)
            \/ Truthy(ext.overrideSyncFn)
            \/ Truthy(ext.disableAutoSync)
            \/ Truthy(ext.receiveChanges)
         THEN {"fetch"} ELSE {"fetch", "xhr", "none"}
    ELSE {"none"}

\* What the user supplied functions do when the engine calls them:
\* the override sync function returns a value or throws, the override fetch
\* function may throw.
Throw == [kind |-> "throw"]
Users(syncFn, fetchFn) ==
    [sync : IF isFunction(syncFn) THEN {Bool(TRUE), Bool(FALSE), Throw} ELSE {Bool(TRUE)},
     fetchThrows : IF fetchFn = Fn("userFetch") THEN BOOLEAN ELSE {FALSE}]

\* configurations carried by the events of peers
EvtCfg1 == Obj([instrumentationKey |-> Str("x"), sampleRate |-> Num(50)])
EvtCfg2 == Obj([instrumentationKey |-> Str("x")])
\* protected keys at the levels 2, 5 and 6; the peer differs from HostNested
\* in the protected values of the levels 2 and 5
EvtCfgDeep ==
    Obj([a |-> Obj([connectionString |-> Str("c2"),
         b |-> Obj([c |-> Obj([d |-> Obj([endpointUrl |-> Str("e5"),
              e |-> Obj([instrumentationKey |-> Str("k6"), f |-> Num(1)])])])])])])

Detail(cfg, customDetails) == Obj([cfg |-> cfg, customDetails |-> customDetails])
Event(detail) == Obj([detail |-> detail])

\* the events a peer may put on the bus
Events ==
    { Event(Detail(c, Null)) : c \in {EvtCfg1, EvtCfg2, EvtCfgDeep, Null} } \cup {Event(Null)}

\* status and body of the responses
Statuses == {199, 200, 399, 400}
Bodies == {Str(""), Str("{bad"), Str("null"), Str("{}"), Str("{\"sampleRate\":10}")}

\* the responses that complete a request: every body with the status 200, and
\* every status with a body that parses to a document
Responses ==
    {[status |-> 200, response |-> b] : b \in Bodies}
        \cup {[status |-> st, response |-> Str("{\"sampleRate\":10}")] : st \in Statuses}

\* JSON.parse on the bodies above: the parsed value, or Throw for a SyntaxError
JSONparse(text) ==
    CASE text = "null" -> Null
      [] text = "{}" -> Obj(<<>>)
      [] text = "{\"sampleRate\":10}" -> Obj([sampleRate |-> Num(10)])
      [] OTHER -> Throw

(***************************************************************************)
(* SelectiveMerge (CfgSyncHelperFuncs.replaceByNonOverrideCfg)             *)
(***************************************************************************)
\* Every key of cfg the rules mark protected is omitted; a nested mapping is
\* filtered with level + 1 while level < maxLevel and copied as it is beyond.
RECURSIVE replaceByNonOverrideCfg(_, _, _, _)
replaceByNonOverrideCfg(cfg, nonOverrideConfigs, curLevel, maxLevel) ==
    IF ~Truthy(cfg) \/ ~Truthy(nonOverrideConfigs) THEN Null
    ELSE IF cfg.kind # "obj" THEN cfg
    ELSE LET keep == {k \in DOMAIN cfg.kids : ~Truthy(Get(nonOverrideConfigs, k))}
         IN  Obj([k \in keep |->
                    IF cfg.kids[k].kind = "obj" /\ curLevel < maxLevel
                    THEN replaceByNonOverrideCfg(cfg.kids[k], nonOverrideConfigs, curLevel + 1, maxLevel)
                    ELSE cfg.kids[k]])

(***************************************************************************)
(* The state as one record, so that the steps of a handler can be composed *)
(***************************************************************************)
Cur ==
    [_mainConfig |-> _mainConfig, _isAutoSync |-> _isAutoSync, _evtName |-> _evtName,
     _evtNamespace |-> _evtNamespace, _cfgUrl |-> _cfgUrl, _timeoutHandle |-> _timeoutHandle,
     _receiveChanges |-> _receiveChanges, _fetchSpan |-> _fetchSpan,
     _onCfgChangeReceive |-> _onCfgChangeReceive, _nonOverrideConfigs |-> _nonOverrideConfigs,
     _fetchFn |-> _fetchFn, _overrideFetchFn |-> _overrideFetchFn, _overrideSyncFn |-> _overrideSyncFn,
     initialized |-> initialized, listeners |-> listeners, timers |-> timers,
     inflight |-> inflight, established |-> established, pollStarts |-> pollStarts,
     hostConfig |-> hostConfig, aliased |-> aliased, out |-> out]

Commit(s) ==
    /\ _mainConfig' = s._mainConfig
    /\ _isAutoSync' = s._isAutoSync
    /\ _evtName' = s._evtName
    /\ _evtNamespace' = s._evtNamespace
    /\ _cfgUrl' = s._cfgUrl
    /\ _timeoutHandle' = s._timeoutHandle
    /\ _receiveChanges' = s._receiveChanges
    /\ _fetchSpan' = s._fetchSpan
    /\ _onCfgChangeReceive' = s._onCfgChangeReceive
    /\ _nonOverrideConfigs' = s._nonOverrideConfigs
    /\ _fetchFn' = s._fetchFn
    /\ _overrideFetchFn' = s._overrideFetchFn
    /\ _overrideSyncFn' = s._overrideSyncFn
    /\ initialized' = s.initialized
    /\ listeners' = s.listeners
    /\ timers' = s.timers
    /\ inflight' = s.inflight
    /\ established' = s.established
    /\ pollStarts' = s.pollStarts
    /\ hostConfig' = s.hostConfig
    /\ aliased' = s.aliased
    /\ out' = s.out
    /\ fan' = fan

\* The record of an operation that has not done anything yet:
\*   ret    the value it returns
\*   bus    the events it emitted on the shared bus
\*   sync   the calls of the override sync function
\*   recv   the calls of the receive-callback override
\*   upd    the calls of the host's updateCfg
\*   sent   the number of requests it dispatched
\*   threw  an exception left the operation
NoOut(op, arg) ==
    [op |-> op, arg |-> arg, ret |-> Undef, bus |-> <<>>, sync |-> <<>>, recv |-> <<>>,
     upd |-> <<>>, sent |-> 0, threw |-> FALSE]

\* the state an operation starts from
Begin(op, arg) == [Cur EXCEPT !.out = NoOut(op, arg)]

\* the namespace createUniqueNamespace / mergeEvtNamespace give this instance
OwnNamespace == Str("AppInsightsCfgSyncPlugin.1")

\* a listener another instance has on the default event name
PeerListener == [name |-> Str(evtName), ns |-> Str("AppInsightsCfgSyncPlugin.2"), owner |-> "peer"]

\* a listener another instance has on the custom event name
PeerListenerCustom == [name |-> Str("custom"), ns |-> Str("AppInsightsCfgSyncPlugin.3"), owner |-> "peer"]

\* the listeners of the other instances on the page
Peers == {PeerListener, PeerListenerCustom}

TimerHandle == [kind |-> "timer"]

(***************************************************************************)
(* The shared event bus (EventHelpers of applicationinsights-core-js)      *)
(***************************************************************************)
\* eventOff(target, null, null, evtNamespace): the listeners registered under
\* the namespace are removed, whatever their event name
eventOff(ls, evtNamespace) == {l \in ls : l.ns # evtNamespace}

\* eventOn(target, eventName, handler, evtNamespace, true)
eventOn(ls, eventName, evtNamespace) ==
    ls \cup {[name |-> eventName, ns |-> evtNamespace, owner |-> "self"]}

(***************************************************************************)
(* The host configuration                                                  *)
(***************************************************************************)
\* core.updateCfg(newConfig): the values of newConfig are merged into the
\* host configuration, nested mappings key by key
RECURSIVE updateCfg(_, _)
updateCfg(theConfig, newConfig) ==
    IF theConfig.kind = "obj" /\ newConfig.kind = "obj"
    THEN Obj([k \in DOMAIN theConfig.kids \cup DOMAIN newConfig.kids |->
                IF k \notin DOMAIN newConfig.kids THEN theConfig.kids[k]
                ELSE IF k \in DOMAIN theConfig.kids
                THEN updateCfg(theConfig.kids[k], newConfig.kids[k])
                ELSE newConfig.kids[k]])
    ELSE newConfig

\* The host's configuration object takes the values of newConfig. A snapshot
\* that is this object shows them at once.
MutateHostConfig(s, newConfig) ==
    LET merged == updateCfg(s.hostConfig, newConfig)
    IN  [s EXCEPT !.hostConfig = merged, !._mainConfig = IF s.aliased THEN merged ELSE @]

(***************************************************************************)
(* The functions of the plugin                                             *)
(***************************************************************************)
_initDefaults(s) ==
    [s EXCEPT !._mainConfig = Null, !._isAutoSync = Null, !._evtName = Null,
              !._evtNamespace = Null, !._cfgUrl = Null, !._receiveChanges = Null,
              !._nonOverrideConfigs = Null, !._timeoutHandle = Null, !._fetchSpan = Null,
              !._overrideFetchFn = Null, !._overrideSyncFn = Null,
              !._onCfgChangeReceive = Null, !.aliased = FALSE]

\* _eventOff removing whatever listens under the stored event name
EventOffByName(s) ==
    [s EXCEPT !.listeners = {l \in @ : l.name # s._evtName}]

\* eventOff(global, null, null, _evtNamespace): remove what is registered under the namespace
_eventOff(s) ==
    [s EXCEPT !.listeners = eventOff(@, s._evtNamespace)]

\* _replaceTartgetByKeys filtering the four levels its comment speaks of
ReplaceFourLevels(s, cfg) ==
    IF Truthy(s._nonOverrideConfigs) /\ Truthy(cfg)
    THEN replaceByNonOverrideCfg(cfg, s._nonOverrideConfigs, StartLevel, MaxLevel - 1)
    ELSE Null

_replaceTartgetByKeys(s, cfg) ==
    IF Truthy(s._nonOverrideConfigs) /\ Truthy(cfg)
    THEN replaceByNonOverrideCfg(cfg, s._nonOverrideConfigs, StartLevel, MaxLevel)
    ELSE Null

\* The handler _addEventListener registers. thr: the function it calls
\* (the receive-callback override, or the host's updateCfg) throws; an
\* updateCfg that throws has changed nothing.
Handler(s, event, thr) ==
    LET cfgEvent == And(event, Get(event, "detail"))
    IN  IF Truthy(s._onCfgChangeReceive) /\ Truthy(cfgEvent)
        THEN [s EXCEPT !.out.recv = Append(@, cfgEvent), !.out.threw = @ \/ thr]
        ELSE LET cfg == And(cfgEvent, Get(cfgEvent, "cfg"))
                 newCfg == And(cfg, _replaceTartgetByKeys(s, cfg))
             IN  IF Truthy(newCfg)
                 THEN LET s1 == [s EXCEPT !.out.upd = Append(@, newCfg)]
                      IN  IF thr THEN [s1 EXCEPT !.out.threw = TRUE]
                          ELSE MutateHostConfig(s1, newCfg)
                 ELSE s

_addEventListener(s) ==
    IF Truthy(s._receiveChanges)
    THEN [s EXCEPT !.listeners = eventOn(@, s._evtName, s._evtNamespace)]
    ELSE s

\* _updateEventListenerName leaving the current listener registered
UpdateNameKeepListener(s, name) ==
    LET s2 == IF Truthy(name) THEN _addEventListener([s EXCEPT !._evtName = name]) ELSE s
    IN  [s2 EXCEPT !.out.ret = Bool(TRUE)]

_updateEventListenerName(s, name) ==
    LET s1 == _eventOff(s)
        s2 == IF Truthy(name) THEN _addEventListener([s1 EXCEPT !._evtName = name]) ELSE s1
    IN  [s2 EXCEPT !.out.ret = Bool(TRUE)]

\* sendCustomEvent(evtName, cfg, customDetails): dispatches the event on the
\* global object; the listeners under that name run before it returns, this
\* instance's own listener among them. The dispatcher does not see what a
\* listener throws.
sendCustomEvent(s, name, cfg, customDetails) ==
    LET details == Detail(Or(cfg, Null), Or(customDetails, Null))
        s1 == [s EXCEPT !.out.bus = Append(@, [name |-> name, detail |-> details])]
        s2 == IF \E l \in s.listeners : l.owner = "self" /\ l.name = name
              THEN Handler(s1, Event(details), FALSE)
              ELSE s1
    IN  [s2 EXCEPT !.out.ret = Bool(TRUE)]

_sendCfgsyncEvents(s, customDetails, u) ==
    IF Truthy(s._overrideSyncFn) /\ isFunction(s._overrideSyncFn)
    THEN [s EXCEPT !.out.sync = Append(@, [cfg |-> s._mainConfig, customDetails |-> customDetails]),
                   !.out.ret = IF u.sync = Throw THEN Bool(FALSE) ELSE u.sync]
    ELSE sendCustomEvent(s, s._evtName, s._mainConfig, customDetails)

\* _setCfg broadcasting whatever isAutoSync says
SetCfgAlwaysSync(s, config, isAutoSync, u) ==
    IF Truthy(config)
    THEN _sendCfgsyncEvents([s EXCEPT !._mainConfig = config, !.aliased = FALSE], Undef, u)
    ELSE [s EXCEPT !.out.ret = Bool(FALSE)]

_setCfg(s, config, isAutoSync, u) ==
    IF Truthy(config)
    THEN LET s1 == [s EXCEPT !._mainConfig = config, !.aliased = FALSE]
         IN  IF Truthy(isAutoSync)
             THEN _sendCfgsyncEvents(s1, Undef, u)
             ELSE [s1 EXCEPT !.out.ret = Bool(FALSE)]
    ELSE [s EXCEPT !.out.ret = Bool(FALSE)]

\* _onFetchComplete taking the document of a response of any status
OnFetchCompleteAnyStatus(s, status, response, isAutoSync, u) ==
    IF Truthy(response)
    THEN LET cfg == JSONparse(response.v)
         IN  IF cfg # Throw /\ Truthy(cfg)
             THEN [_setCfg(s, cfg, isAutoSync, u) EXCEPT !.out.ret = Undef]
             ELSE s
    ELSE s

_onFetchComplete(s, status, response, isAutoSync, u) ==
    IF status >= 200 /\ status < 400 /\ Truthy(response)
    THEN LET cfg == JSONparse(response.v)
         IN  IF cfg # Throw /\ Truthy(cfg)
             THEN [_setCfg(s, cfg, isAutoSync, u) EXCEPT !.out.ret = Undef]
             ELSE s
    ELSE s

\* host: what isFetchSupported() and isXhrSupported() find, "fetch", "xhr" or "none"
_getFetchFnInterface(s, host) ==
    IF isNullOrUndefined(s._overrideFetchFn)
    THEN IF host = "fetch" THEN Fn("_fetchSender")
         ELSE IF host = "xhr" THEN Fn("_xhrSender")
         ELSE s._overrideFetchFn
    ELSE s._overrideFetchFn

\* The call _fetchFn(_cfgUrl, _onFetchComplete, _isAutoSync). A request keeps
\* the isAutoSync it was dispatched with, and whether its sender reports ok
\* responses only (_fetchSender) or any response (_xhrSender, a user's function).
CallFetchFn(s, u) ==
    LET req(okOnly) == [okOnly |-> okOnly, url |-> s._cfgUrl, isAutoSync |-> s._isAutoSync]
        send(okOnly) == [s EXCEPT !.inflight = @ (+) SetToBag({req(okOnly)}), !.out.sent = @ + 1]
    IN  IF s._fetchFn = Fn("_fetchSender")
        THEN IF Truthy(s._cfgUrl) THEN send(TRUE) ELSE s
        ELSE IF s._fetchFn = Fn("_xhrSender")
        THEN send(FALSE)
        ELSE IF isFunction(s._fetchFn)
        THEN IF u.fetchThrows THEN [s EXCEPT !.out.threw = TRUE] ELSE send(FALSE)
        ELSE [s EXCEPT !.out.threw = TRUE]

_setupTimer(s) ==
    IF ~Truthy(s._timeoutHandle) /\ Truthy(s._fetchSpan)
    THEN [s EXCEPT !._timeoutHandle = TimerHandle, !.timers = @ + 1]
    ELSE s

\* _clearScheduledTimer forgetting the handle without cancelling it
ClearHandleOnly(s) == [s EXCEPT !._timeoutHandle = Null]

_clearScheduledTimer(s) ==
    [s EXCEPT !.timers = IF Truthy(s._timeoutHandle) /\ @ > 0 THEN @ - 1 ELSE @,
              !._timeoutHandle = Null]

_doTeardown(s) == _initDefaults(_clearScheduledTimer(_eventOff(s)))

\* the callback _setupTimer schedules
TimerCallback(s, u) ==
    LET s1 == [s EXCEPT !._timeoutHandle = Null]
        s2 == CallFetchFn(s1, u)
    IN  IF s2.out.threw THEN s2 ELSE _setupTimer(s2)

\* LatchModes assigning on every notification
LatchModesAlways(s, ext) ==
    [s EXCEPT !.established = IF @ = Null
                              THEN [disableAutoSync |-> ext.disableAutoSync,
                                    receiveChanges |-> ext.receiveChanges]
                              ELSE @,
              !._isAutoSync = Bool(~Truthy(ext.disableAutoSync)),
              !._receiveChanges = Bool(Truthy(ext.receiveChanges))]

\* The callback _populateDefaults gives to onConfigChange, in its four steps.
\* _isAutoSync and _receiveChanges are set while they are null
LatchModes(s, ext) ==
    LET s0 == IF s.established = Null
              THEN [s EXCEPT !.established = [disableAutoSync |-> ext.disableAutoSync,
                                              receiveChanges |-> ext.receiveChanges]]
              ELSE s
        s1 == IF isNullOrUndefined(s0._isAutoSync)
              THEN [s0 EXCEPT !._isAutoSync = Bool(~Truthy(ext.disableAutoSync))] ELSE s0
    IN  IF isNullOrUndefined(s1._receiveChanges)
        THEN [s1 EXCEPT !._receiveChanges = Bool(Truthy(ext.receiveChanges))] ELSE s1

\* ResolveEvtName subscribing under the new name next to the old one
ResolveEvtNameKeepOld(s, ext) ==
    LET _newEvtName == Or(ext.customEvtName, Str(evtName))
    IN  IF s._evtName # _newEvtName
        THEN _addEventListener([s EXCEPT !._evtName = _newEvtName])
        ELSE s

\* the event name is customEvtName or "cfgsync"; a new name is stored, and
\* listened under in receive mode
ResolveEvtName(s, ext) ==
    LET _newEvtName == Or(ext.customEvtName, Str(evtName))
    IN  IF s._evtName # _newEvtName
        THEN IF Truthy(s._receiveChanges)
             THEN [_updateEventListenerName(s, _newEvtName) EXCEPT !.out.ret = s.out.ret]
             ELSE [_eventOff(s) EXCEPT !._evtName = _newEvtName]
        ELSE s

\* _cfgUrl is set while it is null or undefined
LatchCfgUrl(s, ext) ==
    IF isNullOrUndefined(s._cfgUrl) THEN [s EXCEPT !._cfgUrl = ext.cfgUrl] ELSE s

\* ApplyHostConfig broadcasting whether or not auto-sync is on
ApplyHostConfigUngated(s, config, u) ==
    IF ~Truthy(s._cfgUrl)
    THEN LET s1 == [s EXCEPT !._mainConfig = config, !.aliased = TRUE]
         IN  [_sendCfgsyncEvents(s1, Undef, u) EXCEPT !.out.ret = s1.out.ret]
    ELSE s

\* without a cfgUrl the host's configuration object becomes the snapshot
\* (_mainConfig = config stores the object, not a copy of it) and is broadcast
\* when auto-sync is on
ApplyHostConfig(s, config, u) ==
    IF ~Truthy(s._cfgUrl)
    THEN LET s1 == [s EXCEPT !._mainConfig = config, !.aliased = TRUE]
         IN  IF Truthy(s1._isAutoSync)
             THEN [_sendCfgsyncEvents(s1, Undef, u) EXCEPT !.out.ret = s1.out.ret]
             ELSE s1
    ELSE s

OnConfigChange(s, config, ext, u) ==
    ApplyHostConfig(LatchCfgUrl(ResolveEvtName(LatchModes(s, ext), ext), ext), config, u)

_populateDefaults(s, config, ext, host, u) ==
    LET s1 == OnConfigChange(s, config, ext, u)
        s2 == [s1 EXCEPT !._overrideSyncFn = ext.overrideSyncFn,
                         !._overrideFetchFn = ext.overrideFetchFn,
                         !._onCfgChangeReceive = ext.onCfgChangeReceive,
                         !._nonOverrideConfigs = ext.nonOverrideConfigs,
                         !._fetchSpan = ext.scheduleFetchTimeout]
    IN  IF Truthy(s2._cfgUrl)
        THEN LET s3 == [s2 EXCEPT !._fetchFn = _getFetchFnInterface(s2, host), !.pollStarts = @ + 1]
                 s4 == IF Truthy(s3._fetchFn) THEN CallFetchFn(s3, u) ELSE s3
             IN  IF s4.out.threw THEN s4 ELSE _setupTimer(s4)
        ELSE s2

(***************************************************************************)
(* The state after construction                                            *)
(***************************************************************************)
Init ==
    /\ _mainConfig = Null
    /\ _isAutoSync = Null
    /\ _evtName = Null
    /\ _evtNamespace = Null
    /\ _cfgUrl = Null
    /\ _timeoutHandle = Null
    /\ _receiveChanges = Null
    /\ _fetchSpan = Null
    /\ _onCfgChangeReceive = Null
    /\ _nonOverrideConfigs = Null
    /\ _fetchFn = Undef
    /\ _overrideFetchFn = Null
    /\ _overrideSyncFn = Null
    /\ initialized = FALSE
    /\ listeners = Peers
    /\ timers = 0
    /\ inflight = EmptyBag
    /\ established = Null
    /\ pollStarts = 0
    /\ hostConfig \in HostCfgs
    /\ aliased = FALSE
    /\ out = NoOut("constructor", Undef)
    /\ fan = Null

(***************************************************************************)
(* The operations                                                          *)
(***************************************************************************)
\* the event name the extension configuration asks for
ResolvedName(ext) == Or(ext.customEvtName, Str(evtName))

\* initialize(config, core, extensions, pluginChain): config is the host's
\* configuration object. Requests of an earlier lifecycle may still be
\* outstanding; no more than MaxInflight are followed.
Initialize ==
    /\ ~initialized
    /\ \E ext \in InitExtCfgs :
          \E host \in Hosts(ext), u \in Users(ext.overrideSyncFn, ext.overrideFetchFn) :
              LET s == _populateDefaults([Begin("initialize", [config |-> hostConfig, ext |-> ext]) EXCEPT
                                              !.initialized = TRUE,
                                              !.established = Null, !.pollStarts = 0,
                                              !._evtNamespace = OwnNamespace],
                                         hostConfig, ext, host, u)
              IN  /\ BagCardinality(s.inflight) <= MaxInflight
                  /\ Commit(s)

\* the host, or anything else on the page, sets a value of the host's
\* configuration object (config.sampleRate = r)
HostChange ==
    \E r \in SampleRates :
        /\ Get(hostConfig, "sampleRate") # r
        /\ Commit(MutateHostConfig(Begin("hostChange", Obj([sampleRate |-> r])),
                                   Obj([sampleRate |-> r])))

\* the host calls the onConfigChange callback again, after a change of its
\* configuration object or of the extension configuration in it
ConfigChange ==
    /\ initialized
    /\ \E ext \in LaterExtCfgs, u \in Users(_overrideSyncFn, Undef) :
          Commit(OnConfigChange(Begin("configChange",
                                      [config |-> hostConfig, ext |-> ext,
                                       renamed |-> _evtName # ResolvedName(ext)]),
                                hostConfig, ext, u))

\* setCfg(config)
SetCfg ==
    \E config \in SetCfgArgs, u \in Users(_overrideSyncFn, Undef) :
        Commit(_setCfg(Begin("setCfg", config), config, _isAutoSync, u))

\* sync(customDetails)
Sync ==
    \E customDetails \in SyncArgs, u \in Users(_overrideSyncFn, Undef) :
        Commit(_sendCfgsyncEvents(Begin("sync", customDetails), customDetails, u))

\* updateEventListenerName(eventName)
UpdateEventListenerName ==
    \E name \in NameArgs :
        Commit(_updateEventListenerName(Begin("updateEventListenerName", name), name))

\* teardown(): _doTeardown, after which the base class removes the hooks
Teardown ==
    /\ initialized
    /\ Commit([_doTeardown(Begin("teardown",
                                  [timers |-> timers, name |-> _evtName,
                                   listening |-> \E l \in listeners : l.owner = "self"]))
                  EXCEPT !.initialized = FALSE, !.established = Null])

\* an event of a peer is delivered to the listener of this instance
ReceiveEvent ==
    /\ \E l \in listeners : l.owner = "self"
    /\ \E event \in Events, thr \in BOOLEAN :
          Commit(Handler(Begin("receive", event), event, thr))

\* the scheduled timeout fires
TimerFire ==
    /\ timers > 0
    /\ BagCardinality(inflight) < MaxInflight
    /\ \E u \in Users(Undef, _fetchFn) :
          Commit(TimerCallback([Begin("timer", Undef) EXCEPT !.timers = @ - 1], u))

\* the requests but for one req
Remove(requests, req) == requests (-) SetToBag({req})

\* _fetchSender reports a response only when response.ok, _xhrSender and a
\* user's function report whatever status they get
StatusesOf(req) == IF req.okOnly THEN {st \in Statuses : st >= 200 /\ st <= 299} ELSE Statuses

\* a request completes and the sender calls oncomplete(status, response, isAutoSync)
FetchComplete ==
    \E req \in BagToSet(inflight) :
        \E r \in Responses, u \in Users(_overrideSyncFn, Undef) :
            /\ r.status \in StatusesOf(req)
            /\ Commit(_onFetchComplete(
                   [Begin("fetchComplete", r) EXCEPT !.inflight = Remove(@, req)],
                   r.status, r.response, req.isAutoSync, u))

\* a request ends without a response the sender reports (network failure,
\* rejected promise, response that is not ok)
FetchDrop ==
    \E req \in BagToSet(inflight) :
        Commit([Begin("fetchDrop", Undef) EXCEPT !.inflight = Remove(@, req)])

Next ==
    \/ Initialize
    \/ HostChange
    \/ ConfigChange
    \/ SetCfg
    \/ Sync
    \/ UpdateEventListenerName
    \/ Teardown
    \/ ReceiveEvent
    \/ TimerFire
    \/ FetchComplete
    \/ FetchDrop

Spec == Init /\ [][Next]_vars

(***************************************************************************)
(* Several instances on one page                                           *)
(*                                                                         *)
(* Every instance has its own core, hence its own host configuration, and  *)
(* all of them are in receive mode with auto-sync on and listen under the  *)
(* default event name. An event is dispatched to all listeners before      *)
(* sendCustomEvent returns; the host configuration system calls the        *)
(* onConfigChange callback of an instance some time after a value of its   *)
(* configuration changed.                                                  *)
(***************************************************************************)
Instances == {"a", "b", "c", "d"}

\* external changes of a host configuration that are followed
MaxChanges == 1

FanNamespace ==
    [a |-> Str("AppInsightsCfgSyncPlugin.a"), b |-> Str("AppInsightsCfgSyncPlugin.b"),
     c |-> Str("AppInsightsCfgSyncPlugin.c"), d |-> Str("AppInsightsCfgSyncPlugin.d")]

FanKey == [a |-> Str("ka"), b |-> Str("kb"), c |-> Str("kc"), d |-> Str("kd")]

\* the host configurations an instance may start with
FanHostCfgs(i) ==
    IF i = "a" THEN {Obj([instrumentationKey |-> FanKey[i], sampleRate |-> r]) : r \in SampleRates}
    ELSE IF i = "c"
    THEN {Obj([instrumentationKey |-> FanKey[i], sampleRate |-> Num(10),
               extra |-> Obj([endpointUrl |-> Str("ec"), level |-> Num(2)])])}
    ELSE {Obj([instrumentationKey |-> FanKey[i], sampleRate |-> Num(50)])}

\* the extension configuration of the instances: receive mode and auto-sync on
FanExtCfgs ==
    {[DefaultExt EXCEPT !.receiveChanges = Bool(TRUE), !.nonOverrideConfigs = n] :
        n \in {defaultNonOverrideCfg, CustomNonOverrideCfg}}

\* the rule sets instance i may be initialized with: two instances under the
\* default rules, one under the custom rules and one under either
FanRules(i) ==
    IF i \in {"a", "b"} THEN {defaultNonOverrideCfg}
    ELSE IF i = "c" THEN {defaultNonOverrideCfg, CustomNonOverrideCfg}
    ELSE {CustomNonOverrideCfg}

\* an instance after construction, on a host with the configuration config
Constructed(config) ==
    [_mainConfig |-> Null, _isAutoSync |-> Null, _evtName |-> Null, _evtNamespace |-> Null,
     _cfgUrl |-> Null, _timeoutHandle |-> Null, _receiveChanges |-> Null, _fetchSpan |-> Null,
     _onCfgChangeReceive |-> Null, _nonOverrideConfigs |-> Null, _fetchFn |-> Undef,
     _overrideFetchFn |-> Null, _overrideSyncFn |-> Null, initialized |-> FALSE,
     listeners |-> {}, timers |-> 0, inflight |-> EmptyBag, established |-> Null, pollStarts |-> 0,
     hostConfig |-> config, aliased |-> FALSE, out |-> NoOut("constructor", Undef)]

\* the instance listens under the name
Listens(s, name) == \E l \in s.listeners : l.owner = "self" /\ l.name = name

\* what the further course of the notifications depends on: the host
\* configurations and the notifications that are due
FanCore(f) == [host |-> [i \in Instances |-> f.inst[i].hostConfig], pending |-> f.pending]

\* Instance i has run an operation and is left as si. The event it emitted is
\* dispatched to the listeners of the other instances, whose updateCfg calls
\* change the host configuration of their instance, and an instance whose
\* host configuration changed value is due a notification. With remember,
\* the state the broadcast started from is kept in mark, unless one is kept
\* already. What the operations did is not kept from one step to the next.
FanDeliver(f, i, si, remember) ==
    LET emitted == si.out.bus
        reached(j) == j # i /\ emitted # <<>> /\ Listens(f.inst[j], emitted[1].name)
        after(j) ==
            IF j = i THEN si
            ELSE IF reached(j)
            THEN Handler([f.inst[j] EXCEPT !.out = NoOut("receive", Event(emitted[1].detail))],
                         Event(emitted[1].detail), FALSE)
            ELSE f.inst[j]
    IN  [f EXCEPT !.inst = [j \in Instances |-> [after(j) EXCEPT !.out = NoOut("constructor", Undef)]],
                  !.pending = [j \in Instances |->
                                  \/ j # i /\ f.pending[j]
                                  \/ after(j).hostConfig # f.inst[j].hostConfig],
                  !.mark = IF @ = Null /\ remember /\ emitted # <<>> THEN FanCore(f) ELSE @]

FanInit ==
    /\ _mainConfig = Null
    /\ _isAutoSync = Null
    /\ _evtName = Null
    /\ _evtNamespace = Null
    /\ _cfgUrl = Null
    /\ _timeoutHandle = Null
    /\ _receiveChanges = Null
    /\ _fetchSpan = Null
    /\ _onCfgChangeReceive = Null
    /\ _nonOverrideConfigs = Null
    /\ _fetchFn = Undef
    /\ _overrideFetchFn = Null
    /\ _overrideSyncFn = Null
    /\ initialized = FALSE
    /\ listeners = Peers
    /\ timers = 0
    /\ inflight = EmptyBag
    /\ established = Null
    /\ pollStarts = 0
    /\ hostConfig = CfgA
    /\ aliased = FALSE
    /\ out = NoOut("constructor", Undef)
    /\ \E h \in [Instances -> UNION {FanHostCfgs(i) : i \in Instances}] :
          /\ \A i \in Instances : h[i] \in FanHostCfgs(i)
          /\ fan = [inst |-> [i \in Instances |-> Constructed(h[i])],
                    pending |-> [i \in Instances |-> FALSE], changes |-> 0, mark |-> Null]

\* initialize of one of the instances: the callback runs at once
FanInitialize ==
    /\ \E i \in Instances, ext \in FanExtCfgs, u \in Users(Undef, Undef) :
          /\ ~fan.inst[i].initialized
          /\ ext.nonOverrideConfigs \in FanRules(i)
          /\ fan' = FanDeliver([fan EXCEPT !.mark = Null], i,
                        _populateDefaults([fan.inst[i] EXCEPT
                                               !.out = NoOut("initialize",
                                                             [config |-> fan.inst[i].hostConfig, ext |-> ext]),
                                               !.initialized = TRUE,
                                               !._evtNamespace = FanNamespace[i]],
                                          fan.inst[i].hostConfig, ext, "none", u), FALSE)
    /\ UNCHANGED pluginVars

\* something other than the plugins changes a value of a host configuration
FanExternalChange ==
    /\ fan.changes < MaxChanges
    /\ \E i \in Instances, r \in SampleRates :
          /\ fan.inst[i].initialized
          /\ Get(fan.inst[i].hostConfig, "sampleRate") # r
          /\ fan' = [fan EXCEPT !.inst[i] = MutateHostConfig(@, Obj([sampleRate |-> r])),
                                !.pending[i] = TRUE,
                                !.changes = @ + 1,
                                !.mark = Null]
    /\ UNCHANGED pluginVars

\* the host configuration system notifies an instance of the change of its
\* configuration: the onConfigChange callback runs
FanNotify ==
    /\ \E i \in Instances, ext \in FanExtCfgs, u \in Users(Undef, Undef), remember \in BOOLEAN :
          /\ fan.pending[i]
          /\ fan.inst[i].initialized
          /\ ext.nonOverrideConfigs = fan.inst[i]._nonOverrideConfigs
          /\ fan' = FanDeliver(fan, i,
                        OnConfigChange([fan.inst[i] EXCEPT
                                            !.out = NoOut("configChange",
                                                          [config |-> fan.inst[i].hostConfig, ext |-> ext,
                                                           renamed |-> FALSE])],
                                       fan.inst[i].hostConfig, ext, u), remember)
    /\ UNCHANGED pluginVars

FanNext ==
    \/ FanInitialize
    \/ FanExternalChange
    \/ FanNotify

FanSpec == FanInit /\ [][FanNext]_vars

(***************************************************************************)
(* Definitions the properties are stated with                              *)
(***************************************************************************)
\* the fields _initDefaults resets
EngineVars ==
    <<_mainConfig, _isAutoSync, _evtName, _evtNamespace, _cfgUrl, _timeoutHandle, _receiveChanges,
      _fetchSpan, _onCfgChangeReceive, _nonOverrideConfigs, _overrideFetchFn, _overrideSyncFn>>

FieldsUnset == \A i \in 1..Len(EngineVars) : EngineVars[i] = Null

OwnListeners == {l \in listeners : l.owner = "self"}

\* the listeners an event emitted under the name is delivered to
Receivers(name) == {l \in listeners : l.name = name}

\* the broadcasts of an operation: events on the bus and calls of the override
Broadcasts(o) == Len(o.bus) + Len(o.sync)

BroadcastCfgs(o) ==
    {Get(o.bus[i].detail, "cfg") : i \in 1..Len(o.bus)} \cup {o.sync[i].cfg : i \in 1..Len(o.sync)}

Notifications == {"initialize", "configChange"}

\* the configuration of the event the listener was given: the event of a peer,
\* or the instance's own broadcast
DeliveredCfg ==
    IF out.op = "receive" THEN Get(And(out.arg, Get(out.arg, "detail")), "cfg")
    ELSE IF out.bus # <<>> THEN Get(out.bus[1].detail, "cfg")
    ELSE Undef

\* the nesting levels at which protected keys are removed
ProtectedLevels == 1..5

\* the nodes of a configuration tree, each with the path of keys leading to it
RECURSIVE Entries(_, _)
Entries(c, path) ==
    IF c.kind = "obj"
    THEN {<<path, [kind |-> "object"]>>}
            \cup UNION {Entries(c.kids[k], Append(path, k)) : k \in DOMAIN c.kids}
    ELSE {<<path, c>>}

\* a path that goes through a protected key at one of the protected levels
ThroughProtected(path, rules) ==
    \E i \in 1..Len(path) : i \in ProtectedLevels /\ Truthy(Get(rules, path[i]))

\* the document of a response body, Null when the body is empty or malformed
Parsed(response) ==
    IF Truthy(response) /\ JSONparse(response.v) # Throw THEN JSONparse(response.v) ELSE Null

InRange(status) == status >= 200 /\ status < 400

\* a document with at least one key
NonEmptyDocument(cfg) == cfg.kind = "obj" /\ DOMAIN cfg.kids # {}

\* the events of the last operation that reached the instance's own listener:
\* the event of a peer, or the instance's own broadcast on a name it listens under
Delivered ==
    IF out.op = "receive" THEN <<out.arg>>
    ELSE IF out.bus # <<>> /\ (\E l \in OwnListeners : l.name = out.bus[1].name)
    THEN <<Event(out.bus[1].detail)>>
    ELSE <<>>

\* no notification is due: nothing is emitted until the next external change
FanQuiet == \A i \in Instances : ~fan.pending[i]

(***************************************************************************)
(* The properties                                                          *)
(***************************************************************************)
\* C1: every configuration the listener passes to the host's updateCfg has no
\* key the rule set protects at the levels 1 to 5 and is otherwise the tree
\* of the event's detail.cfg; an event of a peer with a configuration leads to
\* one such call when no receive callback is configured; and the event
\* {instrumentationKey: "x", sampleRate: 50} under the default rules gives
\* {sampleRate: 50}.
C1_ProtectedKeysNeverApplied ==
    /\ \A i \in 1..Len(out.upd) :
          Entries(out.upd[i], <<>>) =
              {e \in Entries(DeliveredCfg, <<>>) : ~ThroughProtected(e[1], _nonOverrideConfigs)}
    /\ (out.op = "receive" /\ ~Truthy(_onCfgChangeReceive) /\ Truthy(DeliveredCfg))
          => Len(out.upd) = 1
    /\ (/\ out.op = "receive"
        /\ ~Truthy(_onCfgChangeReceive)
        /\ _nonOverrideConfigs = defaultNonOverrideCfg
        /\ DeliveredCfg = EvtCfg1)
          => out.upd = <<Obj([sampleRate |-> Num(50)])>>

\* C1 witness: an event with protected keys at the levels 2, 5 and 6 was
\* received under the default rules and its filtered configuration was applied
C1_Witness ==
    /\ out.op = "receive"
    /\ ~Truthy(_onCfgChangeReceive)
    /\ _nonOverrideConfigs = defaultNonOverrideCfg
    /\ DeliveredCfg = EvtCfgDeep
    /\ Len(out.upd) = 1
    /\ out.upd[1] # EvtCfgDeep

\* C2: when teardown returns every field is back to null, and for as long as
\* the instance is not initialized it has no listener on the bus and no live
\* timer, so that no timer tick and no bus event is handled.
C2_TeardownResets ==
    /\ out.op = "teardown" => FieldsUnset
    /\ ~initialized =>
          /\ OwnListeners = {}
          /\ timers = 0
          /\ out.op \notin {"timer", "receive"}

\* C2 witness: teardown of an instance that had a listener and a live timer
C2_Witness ==
    /\ out.op = "teardown"
    /\ out.arg.timers = 1
    /\ out.arg.listening
    /\ FieldsUnset

\* C3 (as claimed): a response that completes while the instance is torn
\* down changes no field and broadcasts nothing.
C3_LateResponseIsNoOp ==
    [][(~initialized /\ out'.op = "fetchComplete")
          => (UNCHANGED EngineVars /\ Broadcasts(out') = 0)]_vars

\* C4: setCfg with a falsy config returns false, broadcasts nothing and leaves
\* the state as it is; with a config it makes the config the snapshot and
\* broadcasts it exactly when auto-sync is on.
C4_SetCfg ==
    [][out'.op = "setCfg" =>
          IF Truthy(out'.arg)
          THEN /\ _mainConfig' = out'.arg
               /\ IF Truthy(_isAutoSync)
                  THEN Broadcasts(out') = 1 /\ BroadcastCfgs(out') = {out'.arg}
                  ELSE Broadcasts(out') = 0 /\ out'.ret = Bool(FALSE)
          ELSE /\ out'.ret = Bool(FALSE)
               /\ Broadcasts(out') = 0
               /\ out'.upd = <<>> /\ out'.recv = <<>> /\ out'.sent = 0 /\ ~out'.threw
               /\ UNCHANGED <<EngineVars, _fetchFn, listeners, timers, inflight, hostConfig, aliased>>]_vars

\* C4 witness: setCfg(null) on an initialized instance with auto-sync on
C4_Witness ==
    /\ out.op = "setCfg"
    /\ out.arg = Null
    /\ initialized
    /\ _isAutoSync = Bool(TRUE)
    /\ _mainConfig # Null
    /\ out.ret = Bool(FALSE)

\* C5: a notification that leaves cfgUrl unset makes the notified config the
\* snapshot and, with auto-sync on, broadcasts it exactly once, otherwise not
\* at all; and no notification broadcasts when the first one of the lifecycle
\* had disableAutoSync set.
C5_NotifyBroadcastsOnce ==
    /\ (out.op \in Notifications /\ ~Truthy(_cfgUrl)) =>
          /\ _mainConfig = out.arg.config
          /\ IF Truthy(_isAutoSync)
             THEN Broadcasts(out) = 1 /\ BroadcastCfgs(out) = {out.arg.config}
             ELSE Broadcasts(out) = 0
    /\ (out.op \in Notifications /\ established # Null /\ Truthy(established.disableAutoSync))
          => Broadcasts(out) = 0

\* C5 witness: a later notification with cfgUrl unset and auto-sync on
\* broadcast the changed configuration
C5_Witness ==
    /\ out.op = "configChange"
    /\ ~Truthy(_cfgUrl)
    /\ _isAutoSync = Bool(TRUE)
    /\ out.arg.config = CfgB
    /\ Len(out.bus) = 1
    /\ Get(out.bus[1].detail, "cfg") = CfgB

\* C6 (as claimed): a notification that finds or leaves cfgUrl set neither
\* changes the snapshot nor broadcasts, and while cfgUrl is set the snapshot
\* changes only by a fetch completion or a setCfg.
C6_FetchModeIgnoresHost ==
    [][/\ (out'.op \in Notifications /\ Truthy(_cfgUrl'))
              => (_mainConfig' = _mainConfig /\ Broadcasts(out') = 0)
       /\ (Truthy(_cfgUrl) /\ Truthy(_cfgUrl') /\ _mainConfig' # _mainConfig)
              => out'.op \in {"fetchComplete", "setCfg"}]_vars

\* C7 (as claimed): after every notification that leaves cfgUrl set the
\* lifecycle has started fetching and polling, once.
C7_PollStartsWithUrl ==
    (out.op \in Notifications /\ Truthy(_cfgUrl)) => pollStarts = 1

\* C8 (as claimed): with an override sync function configured the engine
\* emits nothing on the shared bus.
C8_OverrideNeverOnBus ==
    isFunction(_overrideSyncFn) => out.bus = <<>>

\* C9 (as claimed): no exception leaves the delivery of a bus event.
C9_ReceiveNeverThrows ==
    out.op = "receive" => ~out.threw

\* C10: once _isAutoSync, _receiveChanges or _cfgUrl has a value, no step
\* but teardown changes it.
C10_FirstWriteWins ==
    [][out'.op # "teardown" =>
          /\ ~isNullOrUndefined(_isAutoSync) => _isAutoSync' = _isAutoSync
          /\ ~isNullOrUndefined(_receiveChanges) => _receiveChanges' = _receiveChanges
          /\ ~isNullOrUndefined(_cfgUrl) => _cfgUrl' = _cfgUrl]_vars

\* C10 witness: a notification asked for the opposite of all three latched
\* values and left them as they were
C10_Witness ==
    /\ out.op = "configChange"
    /\ Truthy(out.arg.ext.disableAutoSync) /\ _isAutoSync = Bool(TRUE)
    /\ Truthy(out.arg.ext.receiveChanges) /\ _receiveChanges = Bool(FALSE)
    /\ out.arg.ext.cfgUrl = Undef /\ _cfgUrl = Str(CfgUrl)

\* C11: whatever one instance unsubscribes (teardown, updateEventListenerName,
\* a change of the event name on a notification), the listeners of the other
\* instances stay registered under their names, so that every event emitted
\* under a name still has the other instances on that name as receivers.
C11_PeersStaySubscribed ==
    /\ Peers \subseteq listeners
    /\ \A i \in 1..Len(out.bus) :
          \A p \in Peers : p.name = out.bus[i].name => p \in Receivers(out.bus[i].name)

\* C11 witness: teardown of an instance that listened under "cfgsync", the
\* name another instance listens under, removed its listener and left the other
C11_Witness ==
    /\ out.op = "teardown"
    /\ out.arg.listening
    /\ out.arg.name = Str(evtName)
    /\ OwnListeners = {}
    /\ PeerListener \in Receivers(Str(evtName))

\* C12 (as claimed): a fetch completion whose body does not parse to a
\* non-empty document leaves the snapshot as it is and broadcasts nothing.
C12_OnlyNonEmptyDocument ==
    [][(out'.op = "fetchComplete" /\ ~NonEmptyDocument(Parsed(out'.arg.response)))
          => (_mainConfig' = _mainConfig /\ Broadcasts(out') = 0)]_vars

\* C12: a fetch completion makes the parsed document the snapshot, and
\* broadcasts it once when the request was dispatched with auto-sync on, if and
\* only if the status is in [200,400), the body is non-empty and parses to a
\* truthy value, the empty document {} included; otherwise the snapshot is as
\* it was and nothing is broadcast.
C12_FetchCompletion ==
    [][out'.op = "fetchComplete" =>
          LET cfg == Parsed(out'.arg.response)
          IN  IF InRange(out'.arg.status) /\ Truthy(cfg)
              THEN /\ _mainConfig' = cfg
                   /\ \E req \in BagToSet(inflight) :
                         /\ inflight' = Remove(inflight, req)
                         /\ IF Truthy(req.isAutoSync)
                            THEN Broadcasts(out') = 1 /\ BroadcastCfgs(out') = {cfg}
                            ELSE Broadcasts(out') = 0
              ELSE _mainConfig' = _mainConfig /\ Broadcasts(out') = 0]_vars

\* C12 witness: the response 200 "{}" replaced the snapshot by the empty
\* document, which was broadcast
C12_Witness ==
    /\ out.op = "fetchComplete"
    /\ out.arg.status = 200
    /\ out.arg.response = Str("{}")
    /\ _mainConfig = Obj(<<>>)
    /\ Len(out.bus) = 1
    /\ Get(out.bus[1].detail, "cfg") = Obj(<<>>)

\* C13 (as claimed): an initialized instance that started polling with a
\* non-zero interval has a poll timer armed after every operation, the
\* timer callback and its fetch attempt included.
C13_PollingNeverStops ==
    (initialized /\ pollStarts = 1 /\ Truthy(_fetchSpan)) => (timers = 1 /\ Truthy(_timeoutHandle))

\* C14 (as claimed): after updateEventListenerName(name) with a name the
\* instance is subscribed under that name.
C14_SubscribedUnderName ==
    (out.op = "updateEventListenerName" /\ Truthy(out.arg))
        => \E l \in OwnListeners : l.name = out.arg

\* C14: updateEventListenerName(name) returns true; with a name the stored
\* name becomes name and the instance has, in receive mode, exactly one
\* listener, under name and its namespace, and outside receive mode none;
\* without a name the stored name is as it was and the instance has no
\* listener.
C14_UpdateEventListenerName ==
    [][out'.op = "updateEventListenerName" =>
          /\ out'.ret = Bool(TRUE)
          /\ ~out'.threw
          /\ IF Truthy(out'.arg)
             THEN /\ _evtName' = out'.arg
                  /\ OwnListeners' = IF Truthy(_receiveChanges)
                                     THEN {[name |-> out'.arg, ns |-> _evtNamespace, owner |-> "self"]}
                                     ELSE {}
             ELSE /\ _evtName' = _evtName
                  /\ OwnListeners' = {}]_vars

\* C14 witness: updateEventListenerName("custom") in receive mode left one
\* listener, under "custom"
C14_Witness ==
    /\ out.op = "updateEventListenerName"
    /\ out.arg = Str("custom")
    /\ _receiveChanges = Bool(TRUE)
    /\ _evtName = Str("custom")
    /\ OwnListeners = {[name |-> Str("custom"), ns |-> OwnNamespace, owner |-> "self"]}

\* C15 (as claimed): with a receive callback configured, every event
\* delivered to the instance's listener, the instance's own broadcasts
\* included, is handed to the callback as it is, and the host's updateCfg is
\* not called for it.
C15_RawEventToOverride ==
    (Truthy(_onCfgChangeReceive) /\ Delivered # <<>>)
        => (out.recv = Delivered /\ out.upd = <<>>)

\* C16 (as claimed): there is at most one live timer, and only with cfgUrl
\* set and a non-zero interval; every timer callback dispatches one request
\* and leaves the timer armed again; and a request is dispatched by initialize
\* or by a timer callback only.
C16_TimerDiscipline ==
    /\ timers <= 1
    /\ timers > 0 => (Truthy(_cfgUrl) /\ Truthy(_fetchSpan))
    /\ out.op = "timer" => (out.sent = 1 /\ timers = 1 /\ Truthy(_timeoutHandle))
    /\ out.sent > 0 => (out.sent = 1 /\ out.op \in {"initialize", "timer"})

\* C17 (as claimed): with cfgUrl set and no fetch function, neither
\* initialize nor a timer callback lets an exception out or changes the
\* snapshot.
C17_NoTransportNeverThrows ==
    [][(out'.op \in {"initialize", "timer"} /\ Truthy(_cfgUrl') /\ ~Truthy(_fetchFn'))
          => (~out'.threw /\ _mainConfig' = _mainConfig)]_vars

\* C18: a notification that resolves to an event name other than the stored
\* one stores the new name; in receive mode the instance then has exactly one
\* listener, under the new name and none under the old one, and outside
\* receive mode it has none; and sync() emits under the stored name.
C18_NameChangeOnNotification ==
    [][/\ (out'.op \in Notifications /\ _evtName # ResolvedName(out'.arg.ext)) =>
              /\ _evtName' = ResolvedName(out'.arg.ext)
              /\ OwnListeners' = IF Truthy(_receiveChanges')
                                 THEN {[name |-> _evtName', ns |-> _evtNamespace', owner |-> "self"]}
                                 ELSE {}
       /\ (out'.op = "sync" /\ ~isFunction(_overrideSyncFn)) =>
              (Len(out'.bus) = 1 /\ out'.bus[1].name = _evtName)]_vars

\* C18 witness: a later notification changed the name from "cfgsync" to
\* "custom" in receive mode and the one listener is under "custom"
C18_Witness ==
    /\ out.op = "configChange"
    /\ out.arg.renamed
    /\ _evtName = Str("custom")
    /\ _receiveChanges = Bool(TRUE)
    /\ OwnListeners = {[name |-> Str("custom"), ns |-> OwnNamespace, owner |-> "self"]}

\* C19 (as claimed): a notification of an instance in receive mode emits
\* nothing on the shared bus.
C19_ReceiverNeverBroadcasts ==
    (out.op \in Notifications /\ Truthy(_receiveChanges)) => out.bus = <<>>

\* C20 (as claimed): with all instances in receive mode with auto-sync on and
\* under one event name, and a host that notifies on changes of value only,
\* the broadcasts that follow an initialize or an external change of a host
\* configuration are finitely many, however the notifications are ordered: no
\* broadcast leads back to host configurations and due notifications it or an
\* earlier broadcast started from; and a step that is neither an initialize
\* nor an external change is the notification of an instance whose host
\* configuration changed, so that nothing is emitted once no notification is
\* due.
C20_FanOutQuiesces ==
    [][/\ fan'.mark # Null => FanCore(fan') # fan'.mark
       /\ FanQuiet => \/ fan'.changes = fan.changes + 1
                      \/ \E i \in Instances : ~fan.inst[i].initialized /\ fan'.inst[i].initialized]_vars

====
